---- MODULE Spec2Model ----
(***************************************************************************)
(* Handy TG handlers: the settings registry (settings.ts), the contact     *)
(* router (contact.ts, second half of src/src/start.ts) and the store      *)
(* adapter (_kv.ts).                                                       *)
(*                                                                         *)
(* Every handler is an async function.  The JavaScript event loop runs one *)
(* handler at a time, but a handler gives the loop back at every await of  *)
(* a store or platform call, so handler invocations interleave exactly at  *)
(* those calls.  The model has one action per store/platform call of a     *)
(* handler: the action is that call together with the synchronous code     *)
(* that follows it up to the next call (or up to the return/throw).  The   *)
(* synchronous code before the first call is part of the first action.  A  *)
(* platform call that touches nothing another invocation reads or writes   *)
(* (getChat, getChatMember, copyMessage) commutes with every step of the   *)
(* other invocations and is taken together with the store call next to it. *)
(*                                                                         *)
(* Store values: chat ids, user ids and message_thread_ids are non-zero    *)
(* integers on the platform; a key that is absent (the store's null, which *)
(* the code tests with `!value`) is written Null.  The ban flag is only    *)
(* ever stored as `true`, so the flags are the set of the keys present.    *)
(*                                                                         *)
(* KV.cache (_kv.ts:21) is a Map keyed by the key array object itself, and *)
(* every call site passes a fresh array literal, so the lookup of          *)
(* KV.get (_kv.ts:29-30) misses and KV.get returns what the store holds.   *)
(***************************************************************************)
EXTENDS Integers, Sequences, FiniteSets, TLC

\* ----------------------------------------------------------------- bounds
\* Topics createForumTopic hands out per chat.
MaxTopics == 2

\* The store's null / JavaScript's undefined.
Null == 0

\* ctx.me.id: the bots served by one deployment and one store.
Bots == {1, 2}
\* The specifications of one family of handlers run them for one bot.
OneBot == {1}
Users == {1, 2}
SuperChats == {-1, -2}
\* Handler invocations in flight at once.
Procs == {1, 2}
Threads == 1..MaxTopics

\* ---------------------------------------------------------------- updates
\* A grammY Context: ctx.me.id is the bot, ctx.chat the chat of the update;
\* msg says whether ctx.message is set, topic is message.is_topic_message,
\* thread is message.message_thread_id (Null when undefined).  A message of
\* a forum topic carries both is_topic_message and its thread id; a message
\* outside a topic carries neither.
NoUpdate == [msg |-> FALSE, type |-> "none", chat |-> Null, topic |-> FALSE, thread |-> Null]

PrivateUpdates ==
    {[msg |-> TRUE, type |-> "private", chat |-> u, topic |-> FALSE, thread |-> Null] : u \in Users}

SupergroupUpdates ==
    {[msg |-> TRUE, type |-> "supergroup", chat |-> x[1], topic |-> (x[2] # Null), thread |-> x[2]] :
        x \in SuperChats \X (0..MaxTopics)}

\* An update that is not a message (an edited message, a channel post).
NoMessageUpdates ==
    {[msg |-> FALSE, type |-> "supergroup", chat |-> c, topic |-> FALSE, thread |-> Null] :
        c \in SuperChats}

Updates == PrivateUpdates \cup SupergroupUpdates \cup NoMessageUpdates

\* ctx.message?.chat.id and ctx.message?.chat.type
MessageChatID(upd) == IF upd.msg THEN upd.chat ELSE Null
MessageChatType(upd) == IF upd.msg THEN upd.type ELSE "undefined"

\* What ctx.getChat() and ctx.api.getChatMember() answer: is_forum, the bot's
\* status and its can_manage_topics.
NoChk == [forum |-> FALSE, status |-> "none", manage |-> FALSE]
Chks == [forum : BOOLEAN, status : {"administrator", "member"}, manage : BOOLEAN]

VARIABLES
    settingsChatID,   \* store: (handy, handlers, settings, bot, settingsChatID)
    contactChatID,    \* store: (handy, handlers, contact, settings, bot, contactChatID)
    topicByUser,      \* store: (..., data, bot, contactChatID, topic-by-user, chatID)
    userByTopic,      \* store: (..., data, bot, contactChatID, user-by-topic, topicID)
    bannedUser,       \* store: (..., data, bot, bannedUser, userID) keys present
    forumTopics,      \* platform: per chat, the topics created, with who asked
    inv,              \* the handler invocation each slot is running
    out,              \* the invocation that ended in the last step, as it ended
    lastSettingsSet,  \* history: chat of the last setSettingsChatID seen to succeed
    users,            \* store: (handy, handlers, settings, bot, users)
    startSettingsThreadID, \* store: (handy, handlers, start, settings, bot, settingsThreadID)
    greeting,         \* store: (handy, handlers, start, settings, bot, greeting)
    kv,               \* the adapter: what Deno.Kv holds for each key tuple
    cache,            \* the adapter: KV.cache, per key array object
    built,            \* the adapter: the key array objects passed to it so far
    kvCall,           \* the adapter: the call that waits for Deno.Kv
    kvDone            \* the adapter: the call that ended in the last step

\* The keys of the start flow, and all the keys of the store.
startKeys == <<users, startSettingsThreadID, greeting>>
store == <<settingsChatID, contactChatID, topicByUser, userByTopic, bannedUser, startKeys>>
\* The state of the adapter taken alone, and of the handlers.
kvVars == <<kv, cache, built, kvCall, kvDone>>
handlerVars == <<settingsChatID, contactChatID, topicByUser, userByTopic, bannedUser,
                 forumTopics, inv, out, lastSettingsSet, users, startSettingsThreadID,
                 greeting>>
vars == <<handlerVars, kvVars>>

NoCopy == <<>>

\* interface Greeting {chatID, messageID}; NoGreeting is the absent key.
MessageIDs == {1, 2}
NoGreeting == [chatID |-> Null, messageID |-> Null]
Greetings == [chatID : SuperChats, messageID : MessageIDs]

\* ------------------------------------------------------- the store adapter
\* Key array objects that can exist per key tuple.
MaxKeyObjs == 2

\* A Deno.KvKey is an array; two arrays with the same components are two
\* objects.  A key object is written <<tuple, n>>: the n-th array built with
\* the components of tuple.  KV.cache is a Map, which finds an entry by the
\* identity of the key object (SameValueZero), not by its components.
KeyTuples == {"settingsChatID", "users"}
KeyObjs == KeyTuples \X (1..MaxKeyObjs)
KVValues == {1, 2}

\* Map.get of a key that has no entry.
Undefined == -1

\* op is "get", "set" or "delete"; key the key object and value the value
\* passed; ret what a get returned; reads the kv.get calls it made.
NoKvCall == [op |-> "none", key |-> <<"none", 0>>, value |-> Null, ret |-> Null, reads |-> 0]
KvCall(op, o, v) == [NoKvCall EXCEPT !.op = op, !.key = o, !.value = v]

\* A slot that runs nothing; also the outcome of a step that ends nothing.
\* pc is the call the invocation waits for or, once ended, the call it ended
\* at; res is "running", "ok" (returned) or the message of the Error thrown;
\* sent is the copyMessage issued, created the createForumTopic calls issued,
\* writes the store writes issued.  messageID is ctx.message.message_id and
\* threadID the argument of setStartSettingsThreadID; users is the local
\* array of greet (the argument of setUsers), greeting the Greeting read,
\* reply whether ctx.reply was issued.
NoInv ==
    [h |-> "none", pc |-> "none", bot |-> Null, upd |-> NoUpdate, chk |-> NoChk,
     contactChatID |-> Null, topicID |-> Null, topicChatID |-> Null,
     res |-> "none", ret |-> Null, sent |-> NoCopy, created |-> 0, writes |-> 0,
     messageID |-> Null, threadID |-> Null, users |-> <<>>,
     greeting |-> NoGreeting, reply |-> FALSE]

Call(h, b, upd) ==
    [NoInv EXCEPT !.h = h, !.pc = "call", !.bot = b, !.upd = upd, !.res = "running"]

Return(r) == [r EXCEPT !.res = "ok"]
Throw(r, err) == [r EXCEPT !.res = err]
Await(r, pc) == [r EXCEPT !.pc = pc]

\* Slots are interchangeable: a new invocation takes the lowest free one.
Free(p) == inv[p] = NoInv /\ \A q \in Procs : q < p => inv[q] # NoInv
At(p, h, pc) == inv[p].h = h /\ inv[p].pc = pc

\* The invocation of slot p goes on as r, or ends as r.  No handler steps
\* between the end of an invocation and the host taking its outcome.
Step(p, r) ==
    /\ out = NoInv
    /\ UNCHANGED kvVars
    /\ IF r.res = "running"
       THEN inv' = [inv EXCEPT ![p] = r] /\ out' = NoInv
       ELSE inv' = [inv EXCEPT ![p] = NoInv] /\ out' = r

Init ==
    /\ settingsChatID = [b \in Bots |-> Null]
    /\ contactChatID = [b \in Bots |-> Null]
    /\ topicByUser = [k \in Bots \X SuperChats \X Users |-> Null]
    /\ userByTopic = [k \in Bots \X SuperChats \X Threads |-> Null]
    /\ bannedUser = {}
    /\ forumTopics = [c \in SuperChats |-> <<>>]
    /\ inv = [p \in Procs |-> NoInv]
    /\ out = NoInv
    /\ lastSettingsSet = [b \in Bots |-> Null]
    /\ users = [b \in Bots |-> <<>>]
    /\ startSettingsThreadID = [b \in Bots |-> Null]
    /\ greeting = [b \in Bots |-> NoGreeting]
    /\ kv = [t \in KeyTuples |-> Null]
    /\ cache = [o \in KeyObjs |-> Undefined]
    /\ built = {}
    /\ kvCall = NoKvCall
    /\ kvDone = NoKvCall

\* The host takes the outcome of the invocation that ended (the handler's
\* promise settles) before the next step of any handler.
Settled ==
    /\ out # NoInv
    /\ out' = NoInv
    /\ lastSettingsSet' =
         IF out.h = "setSettingsChatID" /\ out.res = "ok"
         THEN [lastSettingsSet EXCEPT ![out.bot] = out.upd.chat]
         ELSE lastSettingsSet
    /\ UNCHANGED <<store, forumTopics, inv, kvVars>>

\* ------------------------------------------------------------ store reads
\* Variant: the settings chat is read from the contact chat's key.
getSettingsChatID_otherKey(b) == contactChatID[b]

\* kv.get of each key; Null when the key is absent.
getSettingsChatID(b) == settingsChatID[b]
getContactChatID(b) == contactChatID[b]
isUserBanned(b, userID) == <<b, userID>> \in bannedUser
\* Variant: topic-by-user looked up under a key without the contact chat.
getTopicByUser_anyChat(b, contactChat, chatID) ==
    IF topicByUser[b, contactChat, chatID] # Null THEN topicByUser[b, contactChat, chatID]
    ELSE IF \E c \in SuperChats : topicByUser[b, c, chatID] # Null
         THEN topicByUser[b, CHOOSE c \in SuperChats : topicByUser[b, c, chatID] # Null, chatID]
    ELSE Null
getTopicByUser(b, contactChat, chatID) == topicByUser[b, contactChat, chatID]
getUserByTopic(b, contactChat, threadID) ==
    IF threadID \in Threads THEN userByTopic[b, contactChat, threadID] ELSE Null

\* -------------------------------------------------------- messageToAdmin
\* Variant: the ban flag is not consulted.
messageToAdmin_banIgnored(p, b, upd) ==
    /\ Free(p)
    /\ LET c == Call("messageToAdmin", b, upd) IN
       Step(p, IF MessageChatType(upd) # "private" THEN Return(c)
               ELSE Await(c, "getContactChatID"))
    /\ UNCHANGED <<store, forumTopics, lastSettingsSet>>

messageToAdmin_isUserBanned(p, b, upd) ==
    /\ Free(p)
    /\ LET c == Call("messageToAdmin", b, upd) IN
       Step(p, IF MessageChatType(upd) # "private" THEN Return(c)
               ELSE IF isUserBanned(b, upd.chat) THEN Return(c)
               ELSE Await(c, "getContactChatID"))
    /\ UNCHANGED <<store, forumTopics, lastSettingsSet>>

\* Variant: a missing contact chat is swallowed.
messageToAdmin_contactSwallowed(p) ==
    /\ At(p, "messageToAdmin", "getContactChatID")
    /\ LET r == inv[p]
           id == getContactChatID(r.bot) IN
       Step(p, IF id = Null THEN Return(r)
               ELSE Await([r EXCEPT !.contactChatID = id], "getChatTopicID"))
    /\ UNCHANGED <<store, forumTopics, lastSettingsSet>>

messageToAdmin_getContactChatID(p) ==
    /\ At(p, "messageToAdmin", "getContactChatID")
    /\ LET r == inv[p]
           id == getContactChatID(r.bot) IN
       Step(p, IF id = Null THEN Throw(r, "NO_CONTACT_CHAT")
               ELSE Await([r EXCEPT !.contactChatID = id], "getChatTopicID"))
    /\ UNCHANGED <<store, forumTopics, lastSettingsSet>>

\* Variant: a message that opened a topic is not copied into it.
CopyUnlessCreated(r) ==
    Return(IF r.created = 0 THEN [r EXCEPT !.sent = <<r.contactChatID, r.topicID>>] ELSE r)

\* ctx.copyMessage(contactChatID, {message_thread_id: chatTopicID}), and return.
CopyToTopic(r) == Return([r EXCEPT !.sent = <<r.contactChatID, r.topicID>>])

\* Variant: the stored topic is not reused.
getChatTopicID_getIgnored(p) ==
    /\ At(p, "messageToAdmin", "getChatTopicID")
    /\ Step(p, Await(inv[p], "createForumTopic"))
    /\ UNCHANGED <<store, forumTopics, lastSettingsSet>>

getChatTopicID_get(p) ==
    /\ At(p, "messageToAdmin", "getChatTopicID")
    /\ LET r == inv[p]
           chatTopicID == getTopicByUser(r.bot, r.contactChatID, r.upd.chat) IN
       Step(p, IF chatTopicID # Null
               THEN CopyToTopic([r EXCEPT !.topicID = chatTopicID])
               ELSE Await(r, "createForumTopic"))
    /\ UNCHANGED <<store, forumTopics, lastSettingsSet>>

\* Variant: the platform answers with the id of the chat's latest topic.
LatestTopicID(c) == IF forumTopics[c] = <<>> THEN 1 ELSE Len(forumTopics[c])

\* The platform's answer to createForumTopic: a thread id new in that chat.
NewTopicID(c) == Len(forumTopics[c]) + 1

getChatTopicID_createForumTopic(p) ==
    /\ At(p, "messageToAdmin", "createForumTopic")
    /\ LET r == inv[p] IN
       /\ Len(forumTopics[r.contactChatID]) < MaxTopics
       /\ forumTopics' = [forumTopics EXCEPT ![r.contactChatID] =
                            Append(@, [bot |-> r.bot, user |-> r.upd.chat])]
       /\ Step(p, Await([r EXCEPT !.topicID = NewTopicID(r.contactChatID),
                                  !.created = @ + 1], "setTopicByUser"))
    /\ UNCHANGED <<store, lastSettingsSet>>

getChatTopicID_setTopicByUser(p) ==
    /\ At(p, "messageToAdmin", "setTopicByUser")
    /\ LET r == inv[p] IN
       /\ topicByUser' = [topicByUser EXCEPT ![r.bot, r.contactChatID, r.upd.chat] = r.topicID]
       /\ Step(p, Await([r EXCEPT !.writes = @ + 1], "setUserByTopic"))
    /\ UNCHANGED <<settingsChatID, contactChatID, userByTopic, bannedUser,
                   startKeys, forumTopics, lastSettingsSet>>

\* Variant: the second write is left out.
getChatTopicID_secondWriteSkipped(p) ==
    /\ At(p, "messageToAdmin", "setUserByTopic")
    /\ Step(p, CopyToTopic([inv[p] EXCEPT !.writes = @ + 1]))
    /\ UNCHANGED <<store, forumTopics, lastSettingsSet>>

getChatTopicID_setUserByTopic(p) ==
    /\ At(p, "messageToAdmin", "setUserByTopic")
    /\ LET r == inv[p] IN
       /\ userByTopic' = [userByTopic EXCEPT ![r.bot, r.contactChatID, r.topicID] = r.upd.chat]
       /\ Step(p, CopyToTopic([r EXCEPT !.writes = @ + 1]))
    /\ UNCHANGED <<settingsChatID, contactChatID, topicByUser, bannedUser,
                   startKeys, forumTopics, lastSettingsSet>>

\* Variant: a failed second write takes the first write back.
getChatTopicID_setUserByTopic_rolledBack(p) ==
    /\ At(p, "messageToAdmin", "setUserByTopic")
    /\ LET r == inv[p] IN
       /\ topicByUser' = [topicByUser EXCEPT ![r.bot, r.contactChatID, r.upd.chat] = Null]
       /\ Step(p, Throw(r, "STORE_FAILURE"))
    /\ UNCHANGED <<settingsChatID, contactChatID, userByTopic, bannedUser,
                   startKeys, forumTopics, lastSettingsSet>>

\* The store rejects the second kv.set: the rejection passes through
\* getChatTopicID and messageToAdmin, which catch nothing; no copy is made.
getChatTopicID_setUserByTopic_fails(p) ==
    /\ At(p, "messageToAdmin", "setUserByTopic")
    /\ Step(p, Throw(inv[p], "STORE_FAILURE"))
    /\ UNCHANGED <<store, forumTopics, lastSettingsSet>>

\* --------------------------------------------------------- messageToUser
\* Variant: the update's chat is not compared with the contact chat.
messageToUser_anyChat(p, b, upd) ==
    /\ Free(p)
    /\ LET c == Call("messageToUser", b, upd)
           id == getContactChatID(b) IN
       Step(p, IF MessageChatType(upd) # "supergroup" THEN Return(c)
               ELSE IF id = Null THEN Return(c)
               ELSE IF ~upd.topic THEN Return(c)
               ELSE Await([c EXCEPT !.contactChatID = id], "getTopicChatID"))
    /\ UNCHANGED <<store, forumTopics, lastSettingsSet>>

messageToUser_getContactChatID(p, b, upd) ==
    /\ Free(p)
    /\ LET c == Call("messageToUser", b, upd)
           id == getContactChatID(b) IN
       Step(p, IF MessageChatType(upd) # "supergroup" THEN Return(c)
               ELSE IF id = Null THEN Return(c)
               ELSE IF upd.chat # id THEN Return(c)
               ELSE IF ~upd.topic THEN Return(c)
               ELSE Await([c EXCEPT !.contactChatID = id], "getTopicChatID"))
    /\ UNCHANGED <<store, forumTopics, lastSettingsSet>>

\* Variant: nothing is copied to a banned user.
messageToUser_bannedSkipped(p) ==
    /\ At(p, "messageToUser", "getTopicChatID")
    /\ LET r == inv[p]
           topicChatID == getUserByTopic(r.bot, r.contactChatID, r.upd.thread) IN
       Step(p, IF topicChatID = Null THEN Throw(r, "NO_TOPIC_USER")
               ELSE IF isUserBanned(r.bot, topicChatID)
                    THEN Return([r EXCEPT !.topicChatID = topicChatID])
               ELSE Return([r EXCEPT !.topicChatID = topicChatID,
                                     !.sent = <<topicChatID, Null>>]))
    /\ UNCHANGED <<store, forumTopics, lastSettingsSet>>

messageToUser_getTopicChatID(p) ==
    /\ At(p, "messageToUser", "getTopicChatID")
    /\ LET r == inv[p]
           topicChatID == getUserByTopic(r.bot, r.contactChatID, r.upd.thread) IN
       Step(p, IF topicChatID = Null THEN Throw(r, "NO_TOPIC_USER")
               ELSE Return([r EXCEPT !.topicChatID = topicChatID,
                                     !.sent = <<topicChatID, Null>>]))
    /\ UNCHANGED <<store, forumTopics, lastSettingsSet>>

\* ----------------------------------------------------------------- banUser
\* Variant: the topic-message check comes before the contact-chat check.
banUser_topicCheckedFirst(p, b, upd) ==
    /\ Free(p)
    /\ LET c == Call("banUser", b, upd)
           id == getContactChatID(b) IN
       Step(p, IF id = Null THEN Throw(c, "NO_CONTACT_CHAT")
               ELSE IF ~upd.topic THEN Throw(c, "NOT_TOPIC_MESSAGE")
               ELSE IF MessageChatID(upd) # id THEN Throw(c, "NOT_CONTACT_CHAT")
               ELSE Await([c EXCEPT !.contactChatID = id], "getTopicChatID"))
    /\ UNCHANGED <<store, forumTopics, lastSettingsSet>>

banUser_getContactChatID(p, b, upd) ==
    /\ Free(p)
    /\ LET c == Call("banUser", b, upd)
           id == getContactChatID(b) IN
       Step(p, IF id = Null THEN Throw(c, "NO_CONTACT_CHAT")
               ELSE IF MessageChatID(upd) # id THEN Throw(c, "NOT_CONTACT_CHAT")
               ELSE IF ~upd.topic THEN Throw(c, "NOT_TOPIC_MESSAGE")
               ELSE Await([c EXCEPT !.contactChatID = id], "getTopicChatID"))
    /\ UNCHANGED <<store, forumTopics, lastSettingsSet>>

banUser_getTopicChatID(p) ==
    /\ At(p, "banUser", "getTopicChatID")
    /\ LET r == inv[p]
           topicChatID == getUserByTopic(r.bot, r.contactChatID, r.upd.thread) IN
       Step(p, IF topicChatID = Null THEN Throw(r, "NO_TOPIC_USER")
               ELSE Await([r EXCEPT !.topicChatID = topicChatID], "set"))
    /\ UNCHANGED <<store, forumTopics, lastSettingsSet>>

banUser_set(p) ==
    /\ At(p, "banUser", "set")
    /\ LET r == inv[p] IN
       /\ bannedUser' = bannedUser \cup {<<r.bot, r.topicChatID>>}
       /\ Step(p, Return([r EXCEPT !.writes = @ + 1]))
    /\ UNCHANGED <<settingsChatID, contactChatID, topicByUser, userByTopic,
                   startKeys, forumTopics, lastSettingsSet>>

\* --------------------------------------------------------------- unbanUser
unbanUser_getContactChatID(p, b, upd) ==
    /\ Free(p)
    /\ LET c == Call("unbanUser", b, upd)
           id == getContactChatID(b) IN
       Step(p, IF id = Null THEN Throw(c, "NO_CONTACT_CHAT")
               ELSE IF MessageChatID(upd) # id THEN Throw(c, "NOT_CONTACT_CHAT")
               ELSE IF ~upd.topic THEN Throw(c, "NOT_TOPIC_MESSAGE")
               ELSE Await([c EXCEPT !.contactChatID = id], "getTopicChatID"))
    /\ UNCHANGED <<store, forumTopics, lastSettingsSet>>

\* Variant: the user of the thread is looked up under any contact chat.
unbanUser_getTopicChatID_anyChat(p) ==
    /\ At(p, "unbanUser", "getTopicChatID")
    /\ LET r == inv[p]
           here == getUserByTopic(r.bot, r.contactChatID, r.upd.thread)
           owners == {getUserByTopic(r.bot, c, r.upd.thread) : c \in SuperChats} \ {Null}
           topicChatID == IF here # Null \/ owners = {} THEN here
                          ELSE CHOOSE u \in owners : TRUE IN
       Step(p, IF topicChatID = Null THEN Throw(r, "NO_TOPIC_USER")
               ELSE Await([r EXCEPT !.topicChatID = topicChatID], "delete"))
    /\ UNCHANGED <<store, forumTopics, lastSettingsSet>>

unbanUser_getTopicChatID(p) ==
    /\ At(p, "unbanUser", "getTopicChatID")
    /\ LET r == inv[p]
           topicChatID == getUserByTopic(r.bot, r.contactChatID, r.upd.thread) IN
       Step(p, IF topicChatID = Null THEN Throw(r, "NO_TOPIC_USER")
               ELSE Await([r EXCEPT !.topicChatID = topicChatID], "delete"))
    /\ UNCHANGED <<store, forumTopics, lastSettingsSet>>

\* Variant: unbanning also forgets the user of the thread.
unbanUser_deleteWithTopic(p) ==
    /\ At(p, "unbanUser", "delete")
    /\ LET r == inv[p] IN
       /\ bannedUser' = bannedUser \ {<<r.bot, r.topicChatID>>}
       /\ userByTopic' = [userByTopic EXCEPT ![r.bot, r.contactChatID, r.upd.thread] = Null]
       /\ Step(p, Return([r EXCEPT !.writes = @ + 1]))
    /\ UNCHANGED <<settingsChatID, contactChatID, topicByUser,
                   startKeys, forumTopics, lastSettingsSet>>

unbanUser_delete(p) ==
    /\ At(p, "unbanUser", "delete")
    /\ LET r == inv[p] IN
       /\ bannedUser' = bannedUser \ {<<r.bot, r.topicChatID>>}
       /\ Step(p, Return([r EXCEPT !.writes = @ + 1]))
    /\ UNCHANGED <<settingsChatID, contactChatID, topicByUser, userByTopic,
                   startKeys, forumTopics, lastSettingsSet>>

\* -------------------------------------------------------- setContactChatID
setContactChatID_getContactChatID(p, b, upd, chk) ==
    /\ Free(p)
    /\ LET c == [Call("setContactChatID", b, upd) EXCEPT !.chk = chk]
           oldContactChatID == getContactChatID(b) IN
       Step(p, IF upd.type # "supergroup" THEN Throw(c, "CHAT_NOT_SUPERGROUP")
               ELSE IF ~chk.forum THEN Throw(c, "TOPICS_NOT_ENABLED")
               ELSE IF chk.status # "administrator" \/ ~chk.manage
                    THEN Throw(c, "CANNOT_MANAGE_TOPICS")
               ELSE IF upd.chat = oldContactChatID
                    THEN Throw(c, "CHAT_ALREADY_CONTACT_CHAT")
               ELSE Await(c, "set"))
    /\ UNCHANGED <<store, forumTopics, lastSettingsSet>>

\* Variant: the contact chat is registered as the settings chat as well.
setContactChatID_set_alsoSettings(p) ==
    /\ At(p, "setContactChatID", "set")
    /\ LET r == inv[p] IN
       /\ contactChatID' = [contactChatID EXCEPT ![r.bot] = r.upd.chat]
       /\ settingsChatID' = [settingsChatID EXCEPT ![r.bot] = r.upd.chat]
       /\ Step(p, Return([r EXCEPT !.writes = @ + 1]))
    /\ UNCHANGED <<topicByUser, userByTopic, bannedUser,
                   startKeys, forumTopics, lastSettingsSet>>

setContactChatID_set(p) ==
    /\ At(p, "setContactChatID", "set")
    /\ LET r == inv[p] IN
       /\ contactChatID' = [contactChatID EXCEPT ![r.bot] = r.upd.chat]
       /\ Step(p, Return([r EXCEPT !.writes = @ + 1]))
    /\ UNCHANGED <<settingsChatID, topicByUser, userByTopic, bannedUser,
                   startKeys, forumTopics, lastSettingsSet>>

\* ------------------------------------------------------- setSettingsChatID
\* Variant: the bot's rights are checked before the forum flag.
setSettingsChatID_rightsCheckedFirst(p, b, upd, chk) ==
    /\ Free(p)
    /\ LET c == [Call("setSettingsChatID", b, upd) EXCEPT !.chk = chk]
           oldSettingsChatID == getSettingsChatID(b) IN
       Step(p, IF upd.type # "supergroup" THEN Throw(c, "CHAT_NOT_SUPERGROUP")
               ELSE IF chk.status # "administrator" \/ ~chk.manage
                    THEN Throw(c, "CANNOT_MANAGE_TOPICS")
               ELSE IF ~chk.forum THEN Throw(c, "TOPICS_NOT_ENABLED")
               ELSE IF upd.chat = oldSettingsChatID
                    THEN Throw(c, "CHAT_ALREADY_SETTINGS_CHAT")
               ELSE Await(c, "set"))
    /\ UNCHANGED <<store, forumTopics, lastSettingsSet>>

setSettingsChatID_getSettingsChatID(p, b, upd, chk) ==
    /\ Free(p)
    /\ LET c == [Call("setSettingsChatID", b, upd) EXCEPT !.chk = chk]
           oldSettingsChatID == getSettingsChatID(b) IN
       Step(p, IF upd.type # "supergroup" THEN Throw(c, "CHAT_NOT_SUPERGROUP")
               ELSE IF ~chk.forum THEN Throw(c, "TOPICS_NOT_ENABLED")
               ELSE IF chk.status # "administrator" \/ ~chk.manage
                    THEN Throw(c, "CANNOT_MANAGE_TOPICS")
               ELSE IF upd.chat = oldSettingsChatID
                    THEN Throw(c, "CHAT_ALREADY_SETTINGS_CHAT")
               ELSE Await(c, "set"))
    /\ UNCHANGED <<store, forumTopics, lastSettingsSet>>

\* The settings chat written under a key that lacks ctx.me.id.
setSettingsChatID_set_keyWithoutBot(p) ==
    /\ At(p, "setSettingsChatID", "set")
    /\ LET r == inv[p] IN
       /\ settingsChatID' = [b \in Bots |-> r.upd.chat]
       /\ Step(p, Return([r EXCEPT !.writes = @ + 1]))
    /\ UNCHANGED <<contactChatID, topicByUser, userByTopic, bannedUser,
                   startKeys, forumTopics, lastSettingsSet>>

setSettingsChatID_set(p) ==
    /\ At(p, "setSettingsChatID", "set")
    /\ LET r == inv[p] IN
       /\ settingsChatID' = [settingsChatID EXCEPT ![r.bot] = r.upd.chat]
       /\ Step(p, Return([r EXCEPT !.writes = @ + 1]))
    /\ UNCHANGED <<contactChatID, topicByUser, userByTopic, bannedUser,
                   startKeys, forumTopics, lastSettingsSet>>

\* The exported getSettingsChatID, called by the host.
getSettingsChatID_get(p, b) ==
    /\ Free(p)
    /\ LET c == Call("getSettingsChatID", b, NoUpdate)
           id == getSettingsChatID(b) IN
       Step(p, IF id = Null THEN Throw(c, "NO_SETTINGS_CHAT")
               ELSE Return([c EXCEPT !.ret = id]))
    /\ UNCHANGED <<store, forumTopics, lastSettingsSet>>

\* --------------------------------------------------- KV.get, KV.set, KV.delete
\* Callers await each call of the adapter (and KV.instance.init() before it).
\* KV.get up to its await: the cache lookup, and the return of what it finds.
KV_get(o) ==
    /\ kvCall = NoKvCall
    /\ built' = built \cup {o}
    /\ LET cached == cache[o] IN
       IF cached # Undefined
       THEN kvDone' = [KvCall("get", o, Null) EXCEPT !.ret = cached] /\ kvCall' = NoKvCall
       ELSE kvCall' = KvCall("get", o, Null) /\ kvDone' = NoKvCall
    /\ UNCHANGED <<kv, cache, handlerVars>>

\* kv.get answers: the value is put into the cache under the key object and returned.
KV_get_kvGet ==
    /\ kvCall.op = "get"
    /\ LET item == kv[kvCall.key[1]] IN
       /\ cache' = [cache EXCEPT ![kvCall.key] = item]
       /\ kvDone' = [kvCall EXCEPT !.ret = item, !.reads = @ + 1]
    /\ kvCall' = NoKvCall
    /\ UNCHANGED <<kv, built, handlerVars>>

\* KV.set up to its await: the cache is updated under the key object.
KV_set(o, v) ==
    /\ kvCall = NoKvCall
    /\ built' = built \cup {o}
    /\ cache' = [cache EXCEPT ![o] = v]
    /\ kvCall' = KvCall("set", o, v)
    /\ kvDone' = NoKvCall
    /\ UNCHANGED <<kv, handlerVars>>

KV_set_kvSet ==
    /\ kvCall.op = "set"
    /\ kv' = [kv EXCEPT ![kvCall.key[1]] = kvCall.value]
    /\ kvDone' = kvCall
    /\ kvCall' = NoKvCall
    /\ UNCHANGED <<cache, built, handlerVars>>

\* KV.delete up to its await: the entry of the key object is removed.
KV_delete(o) ==
    /\ kvCall = NoKvCall
    /\ built' = built \cup {o}
    /\ cache' = [cache EXCEPT ![o] = Undefined]
    /\ kvCall' = KvCall("delete", o, Null)
    /\ kvDone' = NoKvCall
    /\ UNCHANGED <<kv, handlerVars>>

KV_delete_kvDelete ==
    /\ kvCall.op = "delete"
    /\ kv' = [kv EXCEPT ![kvCall.key[1]] = Null]
    /\ kvDone' = kvCall
    /\ kvCall' = NoKvCall
    /\ UNCHANGED <<cache, built, handlerVars>>

\* A caller of the adapter: it passes an array it has just built or one it
\* kept from an earlier call.
NextKV ==
    \/ \E o \in KeyObjs : KV_get(o)
    \/ KV_get_kvGet
    \/ \E o \in KeyObjs, v \in KVValues : KV_set(o, v)
    \/ KV_set_kvSet
    \/ \E o \in KeyObjs : KV_delete(o)
    \/ KV_delete_kvDelete

SpecKV == Init /\ [][NextKV]_vars

\* ------------------------------------------------------ getUsers, setUsers
\* kv.get of the other keys; getUsers gives [] for an absent list.
getUsers(b) == users[b]
getStartSettingsThreadID(b) == startSettingsThreadID[b]
getGreeting(b) == greeting[b]

\* users.includes(id) and users.push(id)
Includes(list, id) == \E i \in 1..Len(list) : list[i] = id
Push(list, id) == Append(list, id)

\* Variant: the settings chat is not required.
setUsers_unchecked(p, b, list) ==
    /\ Free(p)
    /\ Step(p, Await([Call("setUsers", b, NoUpdate) EXCEPT !.users = list], "set"))
    /\ UNCHANGED <<store, forumTopics, lastSettingsSet>>

\* The exported setUsers, called by the host with a list of its own.
setUsers_getSettingsChatID(p, b, list) ==
    /\ Free(p)
    /\ LET c == [Call("setUsers", b, NoUpdate) EXCEPT !.users = list] IN
       Step(p, IF getSettingsChatID(b) = Null THEN Throw(c, "NO_SETTINGS_CHAT")
               ELSE Await(c, "set"))
    /\ UNCHANGED <<store, forumTopics, lastSettingsSet>>

setUsers_set(p) ==
    /\ At(p, "setUsers", "set")
    /\ LET r == inv[p] IN
       /\ users' = [users EXCEPT ![r.bot] = r.users]
       /\ Step(p, Return([r EXCEPT !.writes = @ + 1]))
    /\ UNCHANGED <<settingsChatID, contactChatID, topicByUser, userByTopic, bannedUser,
                   startSettingsThreadID, greeting, forumTopics, lastSettingsSet>>

\* ------------------------------------------------- setStartSettingsThreadID
setStartSettingsThreadID_getSettingsChatID(p, b, threadID) ==
    /\ Free(p)
    /\ LET c == [Call("setStartSettingsThreadID", b, NoUpdate) EXCEPT !.threadID = threadID] IN
       Step(p, IF getSettingsChatID(b) = Null THEN Throw(c, "NO_SETTINGS_CHAT")
               ELSE Await(c, "set"))
    /\ UNCHANGED <<store, forumTopics, lastSettingsSet>>

setStartSettingsThreadID_set(p) ==
    /\ At(p, "setStartSettingsThreadID", "set")
    /\ LET r == inv[p] IN
       /\ startSettingsThreadID' = [startSettingsThreadID EXCEPT ![r.bot] = r.threadID]
       /\ Step(p, Return([r EXCEPT !.writes = @ + 1]))
    /\ UNCHANGED <<settingsChatID, contactChatID, topicByUser, userByTopic, bannedUser,
                   users, greeting, forumTopics, lastSettingsSet>>

\* ------------------------------------------------- getGreeting, setGreeting
\* The exported getGreeting, called by the host.
getGreeting_get(p, b) ==
    /\ Free(p)
    /\ LET c == Call("getGreeting", b, NoUpdate)
           g == getGreeting(b) IN
       Step(p, IF g = NoGreeting THEN Throw(c, "NO_GREETING_SET")
               ELSE Return([c EXCEPT !.greeting = g]))
    /\ UNCHANGED <<store, forumTopics, lastSettingsSet>>

\* Variant: the settings chat is looked up before the message is tested.
setGreeting_settingsCheckedFirst(p, b, upd, messageID) ==
    /\ Free(p)
    /\ LET c == [Call("setGreeting", b, upd) EXCEPT !.messageID = messageID]
           id == getSettingsChatID(b) IN
       Step(p, IF id = Null THEN Throw(c, "NO_SETTINGS_CHAT")
               ELSE IF ~upd.msg THEN Throw(c, "NO_MESSAGE")
               ELSE IF upd.chat # id THEN Throw(c, "NOT_SETTINGS_CHAT")
               ELSE Await(c, "getStartSettingsThreadID"))
    /\ UNCHANGED <<store, forumTopics, lastSettingsSet>>

setGreeting_getSettingsChatID(p, b, upd, messageID) ==
    /\ Free(p)
    /\ LET c == [Call("setGreeting", b, upd) EXCEPT !.messageID = messageID]
           id == getSettingsChatID(b) IN
       Step(p, IF ~upd.msg THEN Throw(c, "NO_MESSAGE")
               ELSE IF id = Null THEN Throw(c, "NO_SETTINGS_CHAT")
               ELSE IF upd.chat # id THEN Throw(c, "NOT_SETTINGS_CHAT")
               ELSE Await(c, "getStartSettingsThreadID"))
    /\ UNCHANGED <<store, forumTopics, lastSettingsSet>>

setGreeting_getStartSettingsThreadID(p) ==
    /\ At(p, "setGreeting", "getStartSettingsThreadID")
    /\ LET r == inv[p]
           settingsThreadID == getStartSettingsThreadID(r.bot) IN
       Step(p, IF settingsThreadID = Null THEN Throw(r, "NO_START_SETTINGS")
               ELSE IF r.upd.thread # settingsThreadID THEN Throw(r, "NOT_START_SETTINGS")
               ELSE Await(r, "set"))
    /\ UNCHANGED <<store, forumTopics, lastSettingsSet>>

setGreeting_set(p) ==
    /\ At(p, "setGreeting", "set")
    /\ LET r == inv[p] IN
       /\ greeting' = [greeting EXCEPT ![r.bot] =
                         [chatID |-> r.upd.chat, messageID |-> r.messageID]]
       /\ Step(p, Return([r EXCEPT !.writes = @ + 1]))
    /\ UNCHANGED <<settingsChatID, contactChatID, topicByUser, userByTopic, bannedUser,
                   users, startSettingsThreadID, forumTopics, lastSettingsSet>>

\* -------------------------------------------------------------------- greet
\* getGreeting, then ctx.api.copyMessage of the greeting to the user or, for
\* NO_GREETING_SET, ctx.reply of the default text.
greet_getGreeting(p, b, upd) ==
    /\ Free(p)
    /\ LET c == Call("greet", b, upd)
           g == getGreeting(b) IN
       Step(p, IF MessageChatType(upd) # "private" THEN Return(c)
               ELSE IF g = NoGreeting THEN Await([c EXCEPT !.reply = TRUE], "getUsers")
               ELSE Await([c EXCEPT !.greeting = g, !.sent = <<upd.chat, Null>>], "getUsers"))
    /\ UNCHANGED <<store, forumTopics, lastSettingsSet>>

\* getUsers, and the push of the user when the list read does not hold it.
greet_getUsers(p) ==
    /\ At(p, "greet", "getUsers")
    /\ LET r == inv[p]
           list == getUsers(r.bot) IN
       Step(p, Await([r EXCEPT !.users = IF Includes(list, r.upd.chat) THEN list
                                         ELSE Push(list, r.upd.chat)],
                     "setUsers"))
    /\ UNCHANGED <<store, forumTopics, lastSettingsSet>>

\* setUsers as greet calls it: getSettingsChatID, then the write of the list.
greet_setUsers_getSettingsChatID(p) ==
    /\ At(p, "greet", "setUsers")
    /\ LET r == inv[p] IN
       Step(p, IF getSettingsChatID(r.bot) = Null THEN Throw(r, "NO_SETTINGS_CHAT")
               ELSE Await(r, "set"))
    /\ UNCHANGED <<store, forumTopics, lastSettingsSet>>

greet_setUsers_set(p) ==
    /\ At(p, "greet", "set")
    /\ LET r == inv[p] IN
       /\ users' = [users EXCEPT ![r.bot] = r.users]
       /\ Step(p, Return([r EXCEPT !.writes = @ + 1]))
    /\ UNCHANGED <<settingsChatID, contactChatID, topicByUser, userByTopic, bannedUser,
                   startSettingsThreadID, greeting, forumTopics, lastSettingsSet>>

\* ------------------------------------------------------ the contact router
\* What setContactChatID and setSettingsChatID read of an update: its chat.
ChatUpdates == {upd \in Updates : upd.msg /\ upd.thread = Null}

\* In the router's specifications the operator sets the bot up in one staff
\* chat; the other supergroup is a chat the bot only receives updates from.
StaffChats == {-1}
StaffChatUpdates == {upd \in ChatUpdates : upd.type = "private" \/ upd.chat \in StaffChats}

\* Another invocation of messageToAdmin for the same bot and user is running.
Overlaps(p, b, u) ==
    \E q \in Procs \ {p} :
        inv[q].h = "messageToAdmin" /\ inv[q].bot = b /\ inv[q].upd.chat = u

\* The updates the host hands to messageToAdmin.  serial: it hands over no
\* message of a user while an earlier messageToAdmin of that user is running.
Arrivals(serial, p, b) == {upd \in Updates : serial => ~Overlaps(p, b, upd.chat)}

RouterOf(serial, U, S, K) ==
    \E p \in Procs, b \in OneBot :
        \/ \E upd \in U \cap Arrivals(serial, p, b) : messageToAdmin_isUserBanned(p, b, upd)
        \/ messageToAdmin_getContactChatID(p)
        \/ getChatTopicID_get(p)
        \/ getChatTopicID_createForumTopic(p)
        \/ getChatTopicID_setTopicByUser(p)
        \/ getChatTopicID_setUserByTopic(p)
        \/ \E upd \in U : messageToUser_getContactChatID(p, b, upd)
        \/ messageToUser_getTopicChatID(p)
        \/ \E upd \in U : banUser_getContactChatID(p, b, upd)
        \/ banUser_getTopicChatID(p)
        \/ banUser_set(p)
        \/ \E upd \in U : unbanUser_getContactChatID(p, b, upd)
        \/ unbanUser_getTopicChatID(p)
        \/ unbanUser_delete(p)
        \/ \E upd \in S, chk \in K :
               setContactChatID_getContactChatID(p, b, upd, chk)
        \/ setContactChatID_set(p)

Router(serial) == RouterOf(serial, Updates, StaffChatUpdates, Chks)

Next == Router(FALSE) \/ Settled

Spec == Init /\ [][Next]_vars

NextSerial == Router(TRUE) \/ Settled

SpecSerial == Init /\ [][NextSerial]_vars

\* The router with a store that may reject the second write of getChatTopicID.
NextFail ==
    \/ Router(TRUE)
    \/ \E p \in Procs : getChatTopicID_setUserByTopic_fails(p)
    \/ Settled

SpecFail == Init /\ [][NextFail]_vars

\* The bot is an administrator with the right to manage topics in a forum.
AdminChk == [forum |-> TRUE, status |-> "administrator", manage |-> TRUE]

\* The operator moves the contact chat between the two supergroups, in each
\* of which the bot may manage topics; the host hands over the messages of
\* one user one at a time.  The updates are the users' private messages and
\* the staff's messages in the topics of either supergroup.
MoveUpdates == PrivateUpdates \cup {upd \in SupergroupUpdates : upd.topic}
MoveChatUpdates == {upd \in ChatUpdates : upd.type = "supergroup"}

NextMove == RouterOf(TRUE, MoveUpdates, MoveChatUpdates, {AdminChk}) \/ Settled

SpecMove == Init /\ [][NextMove]_vars

\* ---------------------------------------------------- the settings registry
\* The lists the host calls setUsers with.
UserLists == {<<>>, <<1>>, <<1, 2>>}

Registry ==
    \E p \in Procs, b \in OneBot :
        \/ \E upd \in ChatUpdates, chk \in Chks :
               setSettingsChatID_getSettingsChatID(p, b, upd, chk)
        \/ setSettingsChatID_set(p)
        \/ getSettingsChatID_get(p, b)
        \/ \E upd \in ChatUpdates, chk \in Chks :
               setContactChatID_getContactChatID(p, b, upd, chk)
        \/ setContactChatID_set(p)
        \/ \E list \in UserLists : setUsers_getSettingsChatID(p, b, list)
        \/ setUsers_set(p)

NextSettings == Registry \/ Settled

SpecSettings == Init /\ [][NextSettings]_vars

\* ------------------------------------------------------------ the start flow
\* greet and the handlers that configure it, for one bot, with the settings
\* chat being registered and changed meanwhile.
StartBots == {1}

\* The handlers the operator configures the start flow with; the operator
\* issues one command at a time, while users' greet invocations overlap with
\* each other and with the operator's command.
ConfigHandlers == {"setGreeting", "setStartSettingsThreadID", "setSettingsChatID", "getGreeting"}
Configuring == \E q \in Procs : inv[q].h \in ConfigHandlers
Commands(S) == {x \in S : ~Configuring}

StartFlow ==
    \E p \in Procs, b \in StartBots :
        \/ \E upd \in Updates : greet_getGreeting(p, b, upd)
        \/ greet_getUsers(p)
        \/ greet_setUsers_getSettingsChatID(p)
        \/ greet_setUsers_set(p)
        \/ \E upd \in Commands(Updates), messageID \in MessageIDs :
               setGreeting_getSettingsChatID(p, b, upd, messageID)
        \/ setGreeting_getStartSettingsThreadID(p)
        \/ setGreeting_set(p)
        \/ \E threadID \in Commands(Threads) :
               setStartSettingsThreadID_getSettingsChatID(p, b, threadID)
        \/ setStartSettingsThreadID_set(p)
        \/ \E c \in Commands(StartBots) : getGreeting_get(p, c)
        \/ \E upd \in Commands(ChatUpdates) :
               setSettingsChatID_getSettingsChatID(p, b, upd, AdminChk)
        \/ setSettingsChatID_set(p)

NextStart == StartFlow \/ Settled

SpecStart == Init /\ [][NextStart]_vars

\* --------------------------------------------------------- all the handlers
\* The host awaits each handler before it calls the next: every handler of
\* the library, for the bots of B, one invocation (slot p) at a time.
HostOf(p, B, U, G, K, T, M) ==
    \E b \in B :
        \/ \E upd \in U : messageToAdmin_isUserBanned(p, b, upd)
        \/ messageToAdmin_getContactChatID(p)
        \/ getChatTopicID_get(p)
        \/ getChatTopicID_createForumTopic(p)
        \/ getChatTopicID_setTopicByUser(p)
        \/ getChatTopicID_setUserByTopic(p)
        \/ \E upd \in U : messageToUser_getContactChatID(p, b, upd)
        \/ messageToUser_getTopicChatID(p)
        \/ \E upd \in U : banUser_getContactChatID(p, b, upd)
        \/ banUser_getTopicChatID(p)
        \/ banUser_set(p)
        \/ \E upd \in U : unbanUser_getContactChatID(p, b, upd)
        \/ unbanUser_getTopicChatID(p)
        \/ unbanUser_delete(p)
        \/ \E upd \in U \cap StaffChatUpdates, chk \in K :
               setContactChatID_getContactChatID(p, b, upd, chk)
        \/ setContactChatID_set(p)
        \/ \E upd \in U \cap ChatUpdates, chk \in K :
               setSettingsChatID_getSettingsChatID(p, b, upd, chk)
        \/ setSettingsChatID_set(p)
        \/ \E upd \in G : greet_getGreeting(p, b, upd)
        \/ greet_getUsers(p)
        \/ greet_setUsers_getSettingsChatID(p)
        \/ greet_setUsers_set(p)
        \/ \E upd \in U, messageID \in M :
               setGreeting_getSettingsChatID(p, b, upd, messageID)
        \/ setGreeting_getStartSettingsThreadID(p)
        \/ setGreeting_set(p)
        \/ \E threadID \in T : setStartSettingsThreadID_getSettingsChatID(p, b, threadID)
        \/ setStartSettingsThreadID_set(p)

Host(p, B) == HostOf(p, B, Updates, Updates, Chks, Threads, MessageIDs)

NextAll == Host(1, {1}) \/ Settled

SpecAll == Init /\ [][NextAll]_vars

\* ------------------------------------------------------------- two bots
\* Two bots served by one deployment: every handler, for either bot, one
\* invocation at a time.  Both bots are set up in the same supergroup and
\* talk to the same user, so that their keys differ in the bot id only; each
\* bot is started by either user.
BotUpdates == {upd \in Updates : upd.chat \in {1, -1}}
BotThreads == {1}
BotMessageIDs == {1}

NextBots ==
    \/ HostOf(1, Bots, BotUpdates, BotUpdates \cup PrivateUpdates, {AdminChk},
              BotThreads, BotMessageIDs)
    \/ Settled

SpecBots == Init /\ [][NextBots]_vars

\* ================================================================== claims
\* The topics created in chat c on behalf of user u of bot b.
TopicsOf(b, c, u) ==
    {t \in 1..Len(forumTopics[c]) : forumTopics[c][t] = [bot |-> b, user |-> u]}

Scopes == Bots \X SuperChats

\* A getChatTopicID call has written topic-by-user and not yet user-by-topic.
BetweenWrites(p) == At(p, "messageToAdmin", "setUserByTopic")
NoneBetweenWrites == \A p \in Procs : ~BetweenWrites(p)

\* The step is a step of the invocation in slot p.
StepOf(p) == inv'[p] # inv[p]

\* C1 as stated: whenever no getChatTopicID call is between its two writes,
\* user-by-topic[t] = u if and only if topic-by-user[u] = t, in every scope.
C1_MutualInverses ==
    NoneBetweenWrites =>
        \A sc \in Scopes, u \in Users, t \in Threads :
            userByTopic[sc[1], sc[2], t] = u <=> topicByUser[sc[1], sc[2], u] = t

\* C1 amended: whenever no getChatTopicID call is between its two writes,
\* topic-by-user[u] = t implies user-by-topic[t] = u; the converse holds for
\* every user for whom at most one topic was created in the scope.
C1_InverseUnlessRaced ==
    NoneBetweenWrites =>
        \A sc \in Scopes, u \in Users, t \in Threads :
            /\ topicByUser[sc[1], sc[2], u] = t => userByTopic[sc[1], sc[2], t] = u
            /\ Cardinality(TopicsOf(sc[1], sc[2], u)) <= 1 /\ userByTopic[sc[1], sc[2], t] = u
                   => topicByUser[sc[1], sc[2], u] = t

\* Both maps written for a user two topics were created for, no call in flight.
C1_Witness ==
    /\ \A p \in Procs : inv[p] = NoInv
    /\ \E sc \in Scopes, u \in Users, t1, t2 \in Threads :
          /\ t1 # t2
          /\ topicByUser[sc[1], sc[2], u] = t1
          /\ userByTopic[sc[1], sc[2], t1] = u
          /\ userByTopic[sc[1], sc[2], t2] = u

\* C2 (under SpecSerial: a user's messageToAdmin invocations do not overlap):
\* at most one topic is ever created per (bot, contact chat, user); every
\* messageToAdmin that copies has copied into that one topic; it issued a
\* creation only if it is the one that wrote the assignment, and otherwise
\* it found the topic in topic-by-user.
C2_OneTopicReused ==
    /\ \A sc \in Scopes, u \in Users : Cardinality(TopicsOf(sc[1], sc[2], u)) <= 1
    /\ out.h = "messageToAdmin" /\ out.sent # NoCopy =>
          /\ out.res = "ok"
          /\ out.sent[1] = out.contactChatID
          /\ TopicsOf(out.bot, out.sent[1], out.upd.chat) = {out.sent[2]}
          /\ topicByUser[out.bot, out.sent[1], out.upd.chat] = out.sent[2]
          /\ out.created = (IF out.pc = "setUserByTopic" THEN 1 ELSE 0)
          /\ out.writes = 2 * out.created
    /\ out.h = "messageToAdmin" /\ out.sent = NoCopy => out.created = 0

\* A later message: copied into the user's topic with no creation.
C2_Witness ==
    /\ out.h = "messageToAdmin" /\ out.sent # NoCopy /\ out.created = 0
    /\ TopicsOf(out.bot, out.sent[1], out.upd.chat) = {out.sent[2]}

\* C3 as stated: an entry of topic-by-user or of user-by-topic, once it
\* holds an id, is never changed or removed by any step.
C3_NeverReassigned ==
    [][/\ \A k \in DOMAIN topicByUser :
             topicByUser[k] # Null => topicByUser'[k] = topicByUser[k]
       /\ \A k \in DOMAIN userByTopic :
             userByTopic[k] # Null => userByTopic'[k] = userByTopic[k]]_vars

\* C3 amended: a user-by-topic entry, once written, never changes; a
\* topic-by-user entry, once written, is never removed, and changes only in
\* the first write of a getChatTopicID call that had found it absent, to the
\* topic that call created for the same user.
C3_ReassignedOnlyByRace ==
    [][/\ \A k \in DOMAIN userByTopic :
             userByTopic[k] # Null => userByTopic'[k] = userByTopic[k]
       /\ \A k \in DOMAIN topicByUser :
             topicByUser[k] # Null =>
                /\ topicByUser'[k] # Null
                /\ topicByUser'[k] # topicByUser[k] =>
                      /\ \E p \in Procs :
                            /\ At(p, "messageToAdmin", "setTopicByUser") /\ StepOf(p)
                            /\ <<inv[p].bot, inv[p].contactChatID, inv[p].upd.chat>> = k
                            /\ inv[p].created = 1
                            /\ topicByUser'[k] = inv[p].topicID
                      /\ {topicByUser[k], topicByUser'[k]} \subseteq TopicsOf(k[1], k[2], k[3])]_vars

\* An assigned user, and a call about to overwrite the assignment.
C3_Witness ==
    \E p \in Procs :
        /\ At(p, "messageToAdmin", "setTopicByUser")
        /\ topicByUser[inv[p].bot, inv[p].contactChatID, inv[p].upd.chat] \notin {Null, inv[p].topicID}

\* The invocation of slot p has read topic-by-user absent and created a topic.
HasCreated(p) ==
    inv[p].h = "messageToAdmin" /\ inv[p].pc \in {"setTopicByUser", "setUserByTopic"}

SameUser(p, q) ==
    /\ inv[p].bot = inv[q].bot
    /\ inv[p].contactChatID = inv[q].contactChatID
    /\ inv[p].upd.chat = inv[q].upd.chat

\* C4: two messageToAdmin invocations of one user that have both found
\* topic-by-user absent have each created a topic of their own: two
\* different topics exist for the one user.
C4_RaceCreatesTwoTopics ==
    \A p, q \in Procs :
        p # q /\ HasCreated(p) /\ HasCreated(q) /\ SameUser(p, q) =>
            /\ inv[p].topicID # inv[q].topicID
            /\ {inv[p].topicID, inv[q].topicID}
                  \subseteq TopicsOf(inv[p].bot, inv[p].contactChatID, inv[p].upd.chat)
            /\ inv[p].created = 1 /\ inv[q].created = 1

\* Both have read the entry absent and created; neither has written yet.
C4_Witness ==
    \E p, q \in Procs :
        /\ p # q /\ SameUser(p, q)
        /\ At(p, "messageToAdmin", "setTopicByUser")
        /\ At(q, "messageToAdmin", "setTopicByUser")
        /\ topicByUser[inv[p].bot, inv[p].contactChatID, inv[p].upd.chat] = Null

\* The update is a supergroup topic message in chat id.
IsTopicMessageIn(upd, id) ==
    upd.msg /\ upd.type = "supergroup" /\ id # Null /\ upd.chat = id /\ upd.topic

NoEffect(r) == r.sent = NoCopy /\ r.created = 0 /\ r.writes = 0 /\ ~r.reply

\* The step starts an invocation of handler h in slot p, or is the whole of
\* an invocation of h; or it is any step of an invocation of h.
Starts(h, p) == inv[p] = NoInv /\ inv'[p].h = h
WholeOf(h) == out'.h = h /\ out'.pc = "call"
AnyStepOf(h) == out'.h = h \/ \E p \in Procs : StepOf(p) /\ inv'[p].h = h

BanHandlers == {"banUser", "unbanUser"}

\* The error the checks of banUser and unbanUser give for an update when the
\* registered contact chat is id; "pass" when the update passes them.
FirstBanError(upd, id) ==
    IF id = Null THEN "NO_CONTACT_CHAT"
    ELSE IF ~(upd.msg /\ upd.chat = id) THEN "NOT_CONTACT_CHAT"
    ELSE IF ~upd.topic THEN "NOT_TOPIC_MESSAGE"
    ELSE "pass"

\* C8: banUser and unbanUser end at their first step exactly when a check
\* fails, with the error of the first failing check in the order
\* NO_CONTACT_CHAT, NOT_CONTACT_CHAT, NOT_TOPIC_MESSAGE; an update that
\* passes them ends with NO_TOPIC_USER exactly when the thread has no
\* recorded user; a failing invocation has written nothing and made no
\* platform call, and the ban flags change only in the last step of an
\* invocation that succeeds.
C8_BanErrors ==
    [][/\ \A h \in BanHandlers :
          /\ WholeOf(h) =>
                /\ out'.res = FirstBanError(out'.upd, contactChatID[out'.bot])
                /\ out'.res # "pass"
          /\ \A p \in Procs : Starts(h, p) =>
                /\ FirstBanError(inv'[p].upd, contactChatID[inv'[p].bot]) = "pass"
                /\ inv'[p].contactChatID = contactChatID[inv'[p].bot]
          /\ \A p \in Procs : At(p, h, "getTopicChatID") /\ StepOf(p) =>
                LET u == userByTopic[inv[p].bot, inv[p].contactChatID, inv[p].upd.thread] IN
                IF u = Null
                THEN out' = [inv[p] EXCEPT !.res = "NO_TOPIC_USER"]
                ELSE out' = NoInv /\ inv'[p].topicChatID = u
       /\ out'.h \in BanHandlers /\ out'.res # "ok" =>
             /\ NoEffect(out')
             /\ UNCHANGED <<store, forumTopics>>
       /\ bannedUser' # bannedUser => out'.h \in BanHandlers /\ out'.res = "ok"]_vars

\* banUser in a thread with no recorded user, after its other checks passed.
C8_Witness ==
    /\ out.h = "banUser" /\ out.res = "NO_TOPIC_USER"
    /\ FirstBanError(out.upd, out.contactChatID) = "pass"
    /\ \E u \in Users : topicByUser[out.bot, out.contactChatID, u] # Null

\* C7 (under SpecSerial): a private message of a user whose ban flag is set
\* ends messageToAdmin at once with no error, no creation, no copy and no
\* write, and a private message ends that way only if its own sender's flag
\* is set; a flag is set only by the last step of a banUser, and cleared only
\* by the last step of an unbanUser, issued in a thread recorded for that
\* very user, and that step changes nothing else; and a message of a user
\* that user-by-topic records for thread T, once it is let through, is
\* copied into T with no creation.
C7_BanGatesForwarding ==
    [][/\ \A p \in Procs : Starts("messageToAdmin", p) =>
             <<inv'[p].bot, inv'[p].upd.chat>> \notin bannedUser
       /\ WholeOf("messageToAdmin") /\ out'.upd \in PrivateUpdates =>
             /\ <<out'.bot, out'.upd.chat>> \in bannedUser
             /\ out'.res = "ok" /\ NoEffect(out')
             /\ UNCHANGED <<store, forumTopics>>
       /\ \A k \in Bots \X Users :
             (k \in bannedUser) # (k \in bannedUser') =>
                \E p \in Procs :
                   /\ StepOf(p) /\ out'.res = "ok" /\ out'.bot = k[1]
                   /\ out'.h = (IF k \in bannedUser THEN "unbanUser" ELSE "banUser")
                   /\ userByTopic[k[1], out'.contactChatID, out'.upd.thread] = k[2]
                   /\ bannedUser' \ {k} = bannedUser \ {k}
                   /\ UNCHANGED <<settingsChatID, contactChatID, topicByUser,
                                  userByTopic, forumTopics>>
       /\ \A h \in BanHandlers :
             out'.h = h /\ out'.res = "ok" =>
                LET k == <<out'.bot,
                           userByTopic[out'.bot, out'.contactChatID, out'.upd.thread]>> IN
                /\ k[2] # Null
                /\ (k \in bannedUser') = (h = "banUser")
       /\ \A sc \in Scopes, t \in Threads :
             /\ userByTopic[sc[1], sc[2], t] # Null
             /\ out'.h = "messageToAdmin" /\ out'.pc # "call"
             /\ out'.bot = sc[1] /\ out'.contactChatID = sc[2]
             /\ out'.upd.chat = userByTopic[sc[1], sc[2], t]
             => out'.res = "ok" /\ out'.sent = <<sc[2], t>> /\ out'.created = 0]_vars

\* The message of a banned user who owns a topic is dropped.
C7_Witness ==
    /\ out.h = "messageToAdmin" /\ out.pc = "call" /\ out.upd \in PrivateUpdates
    /\ <<out.bot, out.upd.chat>> \in bannedUser
    /\ \E c \in SuperChats : topicByUser[out.bot, c, out.upd.chat] # Null

\* C9 (under SpecSettings): getSettingsChatID throws NO_SETTINGS_CHAT while
\* no setSettingsChatID of the bot has succeeded, and afterwards returns the
\* chat of the last one that succeeded; the stored id changes only in the
\* last step of a setSettingsChatID that succeeds, to the chat of its update.
C9_GetSettingsChatID ==
    [][/\ WholeOf("getSettingsChatID") =>
             IF lastSettingsSet[out'.bot] = Null
             THEN out'.res = "NO_SETTINGS_CHAT"
             ELSE out'.res = "ok" /\ out'.ret = lastSettingsSet[out'.bot]
       /\ \A b \in Bots :
             settingsChatID'[b] # settingsChatID[b] =>
                /\ out'.h = "setSettingsChatID" /\ out'.res = "ok" /\ out'.bot = b
                /\ settingsChatID'[b] = out'.upd.chat
       /\ out'.h = "setSettingsChatID" /\ out'.res # "ok" =>
             UNCHANGED <<store, forumTopics>>]_vars

\* getSettingsChatID returns a chat that replaced an earlier one.
C9_Witness ==
    /\ out.h = "getSettingsChatID" /\ out.res = "ok" /\ out.ret = -2
    /\ \E p \in Procs : At(p, "setSettingsChatID", "set") /\ inv[p].upd.chat = -1

\* The outcome of the four checks, in order, for a candidate chat when the
\* registered chat is old.
FirstChatError(upd, chk, old, already) ==
    IF upd.type # "supergroup" THEN "CHAT_NOT_SUPERGROUP"
    ELSE IF ~chk.forum THEN "TOPICS_NOT_ENABLED"
    ELSE IF ~(chk.status = "administrator" /\ chk.manage) THEN "CANNOT_MANAGE_TOPICS"
    ELSE IF upd.chat = old THEN already
    ELSE "pass"

\* The store key of each handler and the error of its fourth check.
Registered(h) == IF h = "setSettingsChatID" THEN settingsChatID ELSE contactChatID
Already(h) ==
    IF h = "setSettingsChatID" THEN "CHAT_ALREADY_SETTINGS_CHAT"
    ELSE "CHAT_ALREADY_CONTACT_CHAT"
SetHandlers == {"setSettingsChatID", "setContactChatID"}

\* C10 (under SpecSettings): setSettingsChatID and setContactChatID end at
\* their first step exactly when one of the four checks fails, with the
\* error of the first failing check, and the store is then unchanged; an
\* invocation that passes them stores the chat of its update under its key.
C10_ChatChecks ==
    [][\A h \in SetHandlers :
          /\ WholeOf(h) =>
                /\ out'.res = FirstChatError(out'.upd, out'.chk, Registered(h)[out'.bot], Already(h))
                /\ out'.res # "pass"
                /\ NoEffect(out')
                /\ UNCHANGED <<store, forumTopics>>
          /\ \A p \in Procs : Starts(h, p) =>
                FirstChatError(inv'[p].upd, inv'[p].chk, Registered(h)[inv'[p].bot], Already(h)) = "pass"
          /\ \A p \in Procs : At(p, h, "set") /\ StepOf(p) =>
                /\ out' = [inv[p] EXCEPT !.res = "ok", !.writes = 1]
                /\ Registered(h)'[inv[p].bot] = inv[p].upd.chat]_vars

\* A candidate that passed the checks replaces a different registered chat.
C10_Witness ==
    /\ out.h \in SetHandlers /\ out.res = "ok"
    /\ lastSettingsSet[out.bot] \notin {Null, out.upd.chat}
    /\ out.h = "setSettingsChatID"

\* How often user id occurs in a list.
Count(list, id) == Cardinality({i \in 1..Len(list) : list[i] = id})

\* The step ends a greet for a private message that replied the default text.
GreetDefaultEnds == out'.h = "greet" /\ out'.upd \in PrivateUpdates /\ out'.reply

\* C11 as stated: a greet for a private message that finds no greeting
\* replies the default text, and having replied it ends without error with
\* the user in UserList; no user is in UserList twice.
C11_GreetAppends ==
    [][/\ \A p \in Procs :
             Starts("greet", p) /\ greeting[inv'[p].bot] = NoGreeting =>
                inv'[p].reply /\ inv'[p].sent = NoCopy
       /\ GreetDefaultEnds =>
             /\ out'.res = "ok"
             /\ Count(users'[out'.bot], out'.upd.chat) = 1
       /\ \A b \in Bots, u \in Users : Count(users'[b], u) <= 1]_vars

\* C11 where a settings chat is registered: the same greet ends without
\* error having written a list that holds the user once; where none is
\* registered it ends with NO_SETTINGS_CHAT, having replied and written
\* nothing.
C11_GreetAppendsIfRegistered ==
    [][/\ \A p \in Procs :
             Starts("greet", p) /\ greeting[inv'[p].bot] = NoGreeting =>
                inv'[p].reply /\ inv'[p].sent = NoCopy
       /\ GreetDefaultEnds =>
             IF settingsChatID[out'.bot] # Null
             THEN /\ out'.res = "ok" /\ out'.writes = 1
                  /\ Count(users'[out'.bot], out'.upd.chat) = 1
             ELSE /\ out'.res = "NO_SETTINGS_CHAT" /\ out'.writes = 0
                  /\ UNCHANGED <<store, forumTopics>>
       /\ \A b \in Bots, u \in Users : Count(users'[b], u) <= 1]_vars

\* A user was greeted with the default text and is not in UserList.
C11_Witness ==
    /\ out.h = "greet" /\ out.reply /\ out.res = "NO_SETTINGS_CHAT"
    /\ ~Includes(users[out.bot], out.upd.chat)

\* C12: a setUsers for a bot for which no setSettingsChatID has succeeded
\* ends at its first step with NO_SETTINGS_CHAT, having written nothing: no
\* key of the store changes; a setUsers ends that way only for such a bot.
C12_SetUsersNeedsSettingsChat ==
    [][/\ \A p \in Procs : Starts("setUsers", p) => lastSettingsSet[inv'[p].bot] # Null
       /\ WholeOf("setUsers") =>
             /\ lastSettingsSet[out'.bot] = Null
             /\ out'.res = "NO_SETTINGS_CHAT" /\ NoEffect(out')
             /\ UNCHANGED <<store, forumTopics>>
       /\ out'.h = "setUsers" /\ out'.res = "NO_SETTINGS_CHAT" => WholeOf("setUsers")]_vars

\* A setUsers with a list of two users has failed; the stored list is empty.
C12_Witness ==
    /\ out.h = "setUsers" /\ out.res = "NO_SETTINGS_CHAT" /\ out.users = <<1, 2>>
    /\ users[out.bot] = <<>> /\ lastSettingsSet[out.bot] = Null

\* The error of setGreeting's checks before its read of the start-settings
\* thread, when the registered settings chat is id, and of its checks after
\* that read, when the stored thread is t; "pass" when they pass.
FirstGreetingError(upd, id) ==
    IF ~upd.msg THEN "NO_MESSAGE"
    ELSE IF id = Null THEN "NO_SETTINGS_CHAT"
    ELSE IF upd.chat # id THEN "NOT_SETTINGS_CHAT"
    ELSE "pass"
ThreadGreetingError(upd, t) ==
    IF t = Null THEN "NO_START_SETTINGS"
    ELSE IF upd.thread # t THEN "NOT_START_SETTINGS"
    ELSE "pass"

\* C13: setGreeting ends with the error of the first failing check in the
\* order NO_MESSAGE, NO_SETTINGS_CHAT, NOT_SETTINGS_CHAT, NO_START_SETTINGS,
\* NOT_START_SETTINGS, and then no key has changed; when all pass it stores
\* (message chat id, message id) as the greeting and changes nothing else;
\* the greeting changes in no other step, and getGreeting returns exactly
\* the stored reference, or throws NO_GREETING_SET when there is none.
C13_SetGreeting ==
    [][/\ WholeOf("setGreeting") =>
             /\ out'.res = FirstGreetingError(out'.upd, settingsChatID[out'.bot])
             /\ out'.res # "pass" /\ NoEffect(out')
             /\ UNCHANGED <<store, forumTopics>>
       /\ \A p \in Procs : Starts("setGreeting", p) =>
             FirstGreetingError(inv'[p].upd, settingsChatID[inv'[p].bot]) = "pass"
       /\ \A p \in Procs :
             At(p, "setGreeting", "getStartSettingsThreadID") /\ StepOf(p) =>
                LET e == ThreadGreetingError(inv[p].upd, startSettingsThreadID[inv[p].bot]) IN
                /\ IF e = "pass" THEN inv'[p] = [inv[p] EXCEPT !.pc = "set"]
                   ELSE out' = [inv[p] EXCEPT !.res = e] /\ NoEffect(out')
                /\ UNCHANGED <<store, forumTopics>>
       /\ \A p \in Procs : At(p, "setGreeting", "set") /\ StepOf(p) =>
             /\ out' = [inv[p] EXCEPT !.res = "ok", !.writes = 1]
             /\ greeting'[inv[p].bot] =
                   [chatID |-> inv[p].upd.chat, messageID |-> inv[p].messageID]
             /\ UNCHANGED <<settingsChatID, contactChatID, topicByUser, userByTopic,
                            bannedUser, users, startSettingsThreadID, forumTopics>>
       /\ greeting' # greeting => out'.h = "setGreeting" /\ out'.res = "ok"
       /\ WholeOf("getGreeting") =>
             IF greeting[out'.bot] = NoGreeting THEN out'.res = "NO_GREETING_SET"
             ELSE out'.res = "ok" /\ out'.greeting = greeting[out'.bot]]_vars

\* getGreeting returns the reference a setGreeting stored, here one stored
\* while another chat was the settings chat.
C13_Witness ==
    /\ out.h = "getGreeting" /\ out.res = "ok"
    /\ out.greeting = [chatID |-> -2, messageID |-> 2]
    /\ startSettingsThreadID[out.bot] = 1 /\ settingsChatID[out.bot] = -1

\* The state-changing platform calls an invocation has issued: topic
\* creations, message copies and replies.
PlatformCalls(r) ==
    r.created + (IF r.sent # NoCopy THEN 1 ELSE 0) + (IF r.reply THEN 1 ELSE 0)

\* C14 as stated: no invocation, running or ended, has issued more than one
\* state-changing platform call.
C14_AtMostOnePlatformCall ==
    /\ \A p \in Procs : PlatformCalls(inv[p]) <= 1
    /\ PlatformCalls(out) <= 1

\* C14 amended: a messageToAdmin that found no topic for the user ends having
\* issued exactly two, the creation of the topic and then the copy of the
\* message into it; every other invocation has issued at most one.
C14_TwoCallsOnlyOnFirstContact ==
    /\ \A p \in Procs : PlatformCalls(inv[p]) <= 1
    /\ IF out.h = "messageToAdmin" /\ out.pc = "setUserByTopic"
       THEN out.created = 1 /\ out.sent = <<out.contactChatID, out.topicID>>
            /\ PlatformCalls(out) = 2
       ELSE PlatformCalls(out) <= 1

\* A first message has opened a topic and was copied into it.
C14_Witness ==
    /\ out.h = "messageToAdmin" /\ out.res = "ok" /\ PlatformCalls(out) = 2
    /\ out.sent[2] = topicByUser[out.bot, out.contactChatID, out.upd.chat]

\* Topic t is recorded for user k[3] of scope (k[1], k[2]), no user is
\* recorded for t, and no call of that user is between its two writes: the
\* second write of the call that created t has failed.
HalfWritten(k, t) ==
    /\ topicByUser[k] = t
    /\ userByTopic[k[1], k[2], t] = Null
    /\ \A p \in Procs :
          BetweenWrites(p) => <<inv[p].bot, inv[p].contactChatID, inv[p].upd.chat>> # k

\* C15 (under SpecFail: the second write may fail; a user's messageToAdmin
\* invocations do not overlap): the failing call ends with the store's
\* error and no copy, leaving topic-by-user as it wrote it; from then on,
\* in every step, the entry keeps the topic and the topic keeps having no
\* recorded user; a messageToAdmin of that user that gets to the lookup
\* copies into that topic and creates none; a messageToUser in that topic
\* ends with NO_TOPIC_USER.
C15_NoRollbackNoRepair ==
    [][/\ \A p \in Procs :
             BetweenWrites(p) /\ StepOf(p) /\ out'.res # "ok" =>
                /\ out'.res = "STORE_FAILURE" /\ out'.sent = NoCopy
                /\ \A k \in DOMAIN topicByUser, t \in Threads :
                      /\ k = <<inv[p].bot, inv[p].contactChatID, inv[p].upd.chat>>
                      /\ t = inv[p].topicID
                      => topicByUser[k] = t /\ HalfWritten(k, t)'
       /\ \A k \in DOMAIN topicByUser, t \in Threads :
             HalfWritten(k, t) =>
                /\ HalfWritten(k, t)'
                /\ out'.h = "messageToAdmin" /\ out'.pc \notin {"call", "getContactChatID"}
                   /\ <<out'.bot, out'.contactChatID, out'.upd.chat>> = k =>
                      /\ out'.res = "ok" /\ out'.created = 0
                      /\ out'.sent = <<k[2], t>>
                /\ out'.h = "messageToUser" /\ out'.pc = "getTopicChatID"
                   /\ <<out'.bot, out'.contactChatID>> = <<k[1], k[2]>>
                   /\ out'.upd.thread = t =>
                      out'.res = "NO_TOPIC_USER" /\ out'.sent = NoCopy]_vars

\* A later message of the user was copied into the topic that has no user.
C15_Witness ==
    /\ out.h = "messageToAdmin" /\ out.sent # NoCopy /\ out.created = 0
    /\ HalfWritten(<<out.bot, out.contactChatID, out.upd.chat>>, out.sent[2])

\* C16 as stated: what a get returns is what the store holds for the key
\* tuple, which is the value of the last set of the tuple not followed by a
\* delete of it, and null otherwise.
C16_GetEqualsStore ==
    kvDone.op = "get" => kvDone.ret = kv[kvDone.key[1]]

\* A get was answered from the cache with a value the store does not hold.
C16_Witness ==
    /\ kvDone.op = "get" /\ kvDone.reads = 0
    /\ kvDone.ret = Null /\ kv[kvDone.key[1]] = 2

\* The step is the call of KV.get with a key array o built for this call.
FreshGet(o) ==
    /\ o \notin built /\ kvCall = NoKvCall
    /\ \/ kvCall'.op = "get" /\ kvCall'.key = o
       \/ kvDone'.op = "get" /\ kvDone'.key = o

\* The cache holds an entry for some array with the components of tuple t.
Populated(t) == \E o \in KeyObjs : o[1] = t /\ cache[o] # Undefined

\* C17 as stated: a get with a newly built key array whose tuple the cache
\* was populated for is answered from the cache, with no read of the store.
C17_EqualTupleHitsCache ==
    [][\A o \in KeyObjs :
          FreshGet(o) /\ Populated(o[1]) => kvDone'.op = "get" /\ kvDone'.reads = 0]_vars

\* What holds instead: a get with a newly built key array always goes to the
\* store; a get that went to the store returns what the store holds; and a
\* get is answered from the cache only for an array object passed before.
KV_FreshGetReadsStore ==
    [][/\ \A o \in KeyObjs : FreshGet(o) => kvCall'.op = "get" /\ kvCall'.key = o
       /\ kvDone'.op = "get" /\ kvDone'.reads = 1 => kvDone'.ret = kv[kvDone'.key[1]]
       /\ kvDone'.op = "get" /\ kvDone'.reads = 0 => kvDone'.key \in built]_vars

\* A get with a new array waits for the store although the cache holds a
\* value for an equal tuple.
C17_Witness ==
    /\ kvCall.op = "get"
    /\ \E o \in KeyObjs \ {kvCall.key} : o[1] = kvCall.key[1] /\ cache[o] \in KVValues

\* C18 as stated: UserList is append-only under greet, also when greet
\* invocations interleave: a user id in the stored list (only a successful
\* greet writes it) is in the list in every later state.
C18_UserListAppendOnly ==
    [][\A b \in Bots, u \in Users : Includes(users[b], u) => Includes(users'[b], u)]_vars

\* A greet holds the list it is about to write, read before another greet
\* persisted its user: the stored list has a user the pending list has not.
C18_Witness ==
    \E p \in Procs, u \in Users :
        /\ At(p, "greet", "set")
        /\ Includes(users[inv[p].bot], u)
        /\ ~Includes(inv[p].users, u)

\* Everything bot b can observe in the store: the keys with b's id.
BotView(b) ==
    <<settingsChatID[b], contactChatID[b],
      [k \in SuperChats \X Users |-> topicByUser[b, k[1], k[2]]],
      [k \in SuperChats \X Threads |-> userByTopic[b, k[1], k[2]]],
      {u \in Users : <<b, u>> \in bannedUser},
      users[b], startSettingsThreadID[b], greeting[b]>>

\* A step of a handler, and the invocation as the step leaves it.
HandlerStep == out = NoInv /\ (out' # NoInv \/ inv' # inv)
After == IF out' # NoInv THEN out' ELSE inv'[CHOOSE p \in Procs : inv'[p] # inv[p]]

\* C19: a step of a handler invoked for bot a leaves everything another bot
\* can observe unchanged (settings chat, contact chat, topic assignments, ban
\* flags, user list, start-settings thread, greeting), and what the handler
\* has read and the error it ends with come from the keys with a's id.
C19_BotIsolation ==
    [][HandlerStep =>
         LET r == After
             a == r.bot
             chat == r.upd.chat IN
         /\ \A b \in Bots \ {a} : BotView(b)' = BotView(b)
         /\ r.res = "NO_SETTINGS_CHAT" => settingsChatID[a] = Null
         /\ r.res = "NOT_SETTINGS_CHAT" => settingsChatID[a] \notin {Null, MessageChatID(r.upd)}
         /\ r.res = "CHAT_ALREADY_SETTINGS_CHAT" => settingsChatID[a] = chat
         /\ r.res = "NO_CONTACT_CHAT" => contactChatID[a] = Null
         /\ r.res = "NOT_CONTACT_CHAT" => contactChatID[a] \notin {Null, MessageChatID(r.upd)}
         /\ r.res = "CHAT_ALREADY_CONTACT_CHAT" => contactChatID[a] = chat
         /\ r.res = "NO_START_SETTINGS" => startSettingsThreadID[a] = Null
         /\ r.res = "NOT_START_SETTINGS" => startSettingsThreadID[a] \notin {Null, r.upd.thread}
         /\ r.res = "NO_GREETING_SET" => greeting[a] = NoGreeting
         /\ r.res = "NO_TOPIC_USER" =>
                \A t \in Threads : t = r.upd.thread => userByTopic[a, r.contactChatID, t] = Null
         /\ r.contactChatID # Null => r.contactChatID = contactChatID[a]
         /\ r.topicChatID # Null =>
                r.topicChatID = userByTopic[a, r.contactChatID, r.upd.thread]
         /\ r.h = "messageToAdmin" /\ r.pc = "call" /\ MessageChatType(r.upd) = "private" =>
                <<a, chat>> \in bannedUser
         /\ r.h = "messageToAdmin" /\ r.pc = "getContactChatID" => <<a, chat>> \notin bannedUser
         /\ r.h = "messageToAdmin" /\ r.pc = "createForumTopic" =>
                topicByUser[a, r.contactChatID, chat] = Null
         /\ r.h = "messageToAdmin" /\ r.topicID # Null /\ r.created = 0 =>
                r.topicID = topicByUser[a, r.contactChatID, chat]
         /\ r.greeting # NoGreeting => r.greeting = greeting[a]
         /\ r.h = "greet" /\ r.reply => greeting[a] = NoGreeting
         /\ r.h = "greet" /\ r.users # <<>> =>
                r.users \in {users'[a], Push(users'[a], chat)}]_vars

\* Both bots are set up in the same supergroup and have a topic for the same
\* user; bot 2 has a greeting and bot 1 has none; a first message of the user
\* to bot 1 has just been routed to a topic of its own.
C19_Witness ==
    /\ out.h = "messageToAdmin" /\ out.bot = 1 /\ out.res = "ok" /\ out.created = 1
    /\ contactChatID[1] = contactChatID[2]
    /\ topicByUser[2, out.contactChatID, out.upd.chat] = 1
    /\ topicByUser[1, out.contactChatID, out.upd.chat] = 2
    /\ greeting[2] # NoGreeting /\ greeting[1] = NoGreeting
    /\ users[2] = <<1, 2>> /\ users[1] = <<2>>

\* C20: a setSettingsChatID that succeeds writes the chat of the update under
\* the bot's SettingsChatID key and no step of it changes any other key; a
\* setContactChatID that succeeds writes the chat under the bot's
\* ContactChatID key and no step of it changes any other key: the other chat
\* id, UserList, StartSettingsThreadID, GreetingContent, the topic
\* assignments and the ban flags stay as they are.
C20_SettersWriteOwnKey ==
    [][/\ AnyStepOf("setSettingsChatID") =>
             /\ UNCHANGED <<contactChatID, topicByUser, userByTopic, bannedUser, startKeys>>
             /\ settingsChatID' =
                  IF out'.res = "ok"
                  THEN [settingsChatID EXCEPT ![out'.bot] = out'.upd.chat]
                  ELSE settingsChatID
       /\ AnyStepOf("setContactChatID") =>
             /\ UNCHANGED <<settingsChatID, topicByUser, userByTopic, bannedUser, startKeys>>
             /\ contactChatID' =
                  IF out'.res = "ok"
                  THEN [contactChatID EXCEPT ![out'.bot] = out'.upd.chat]
                  ELSE contactChatID]_vars

\* The settings chat has just been changed to the chat that is the contact
\* chat already; the greeting and the start-settings thread stored under the
\* previous settings chat are still there, and so is a topic assignment.
C20_Witness ==
    /\ out.h = "setSettingsChatID" /\ out.res = "ok"
    /\ lastSettingsSet[out.bot] \notin {Null, out.upd.chat}
    /\ settingsChatID[out.bot] = out.upd.chat
    /\ contactChatID[out.bot] = out.upd.chat
    /\ greeting[out.bot] # NoGreeting /\ greeting[out.bot].chatID = lastSettingsSet[out.bot]
    /\ startSettingsThreadID[out.bot] # Null
    /\ \E u \in Users : topicByUser[out.bot, out.upd.chat, u] # Null

\* C23: the ban flag gates only the user-to-staff direction: a messageToUser
\* for a topic message in a topic whose recorded user is banned ends without
\* error with the staff message copied to exactly that user, and whether a
\* messageToUser goes on to the lookup of the topic's user does not depend on
\* any ban flag (it does so for every topic message in the contact chat).
C23_BanGatesOnlyUserToStaff ==
    [][/\ out'.h = "messageToUser" /\ out'.pc # "call" =>
             \A u \in Users :
                 /\ u = userByTopic[out'.bot, out'.contactChatID, out'.upd.thread]
                 /\ <<out'.bot, u>> \in bannedUser
                 => out'.res = "ok" /\ out'.sent = <<u, Null>>
       /\ WholeOf("messageToUser") =>
             ~IsTopicMessageIn(out'.upd, contactChatID[out'.bot])
       /\ AnyStepOf("messageToUser") => bannedUser' = bannedUser]_vars

\* A staff message has been copied to a user who is banned.
C23_Witness ==
    /\ out.h = "messageToUser" /\ out.res = "ok" /\ out.sent # NoCopy
    /\ <<out.bot, out.sent[1]>> \in bannedUser
    /\ out.sent[1] = userByTopic[out.bot, out.upd.chat, out.upd.thread]

\* C21: topic assignments are kept per contact chat.  A messageToAdmin reads
\* the contact chat registered at that moment and looks the user's topic up
\* under that chat only: if the user has none there, whatever topics the user
\* has in other chats, a topic is created; if the user has one there, the
\* message is copied into it with no creation and no write.  An entry of
\* either map changes only from absent, and only by a messageToAdmin for
\* that bot, that contact chat and that user (or that topic): the entries of
\* every other chat, and all entries when the contact chat is set, stay.
C21_TopicsPerContactChat ==
    [][\A p \in Procs :
          LET r == inv[p]
              b == r.bot
              c == r.contactChatID
              u == r.upd.chat IN
          /\ StepOf(p) /\ r.h = "messageToAdmin" /\ r.pc = "getContactChatID"
             /\ inv'[p] # NoInv => inv'[p].contactChatID = contactChatID[b]
          /\ StepOf(p) /\ r.h = "messageToAdmin" /\ r.pc = "getChatTopicID" =>
                IF topicByUser[b, c, u] = Null
                THEN inv'[p].pc = "createForumTopic" /\ out' = NoInv
                ELSE /\ out'.res = "ok" /\ out'.created = 0 /\ out'.writes = 0
                     /\ out'.sent = <<c, topicByUser[b, c, u]>>
          /\ StepOf(p) /\ r.h = "messageToAdmin" =>
                /\ \A k \in DOMAIN topicByUser :
                       topicByUser'[k] # topicByUser[k] =>
                           k = <<b, c, u>> /\ topicByUser[k] = Null
                /\ \A k \in DOMAIN userByTopic :
                       userByTopic'[k] # userByTopic[k] =>
                           k = <<b, c, r.topicID>> /\ userByTopic[k] = Null
          /\ StepOf(p) /\ r.h # "messageToAdmin" => UNCHANGED <<topicByUser, userByTopic>>
          /\ Starts("setContactChatID", p) \/ Starts("messageToAdmin", p) =>
                UNCHANGED <<topicByUser, userByTopic>>]_vars

\* The first message of a user after the contact chat was changed has
\* created a topic in the new chat; the user's topic in the previous chat
\* is recorded in both maps as before.
C21_Witness ==
    /\ out.h = "messageToAdmin" /\ out.res = "ok" /\ out.created = 1
    /\ contactChatID[out.bot] = out.contactChatID
    /\ \E c \in SuperChats \ {out.contactChatID}, t \in Threads :
           /\ topicByUser[out.bot, c, out.upd.chat] = t
           /\ userByTopic[out.bot, c, t] = out.upd.chat

\* An invocation for bot b in flight that has passed the check of u's ban
\* flag, or that may still remove it: a messageToAdmin of u, or an unbanUser
\* that has read its contact chat as another chat than c or found u.
Pending(b, u, c) ==
    \E p \in Procs :
        /\ inv[p].bot = b
        /\ \/ inv[p].h = "messageToAdmin" /\ inv[p].upd.chat = u
           \/ inv[p].h = "unbanUser" /\ (inv[p].contactChatID # c \/ inv[p].topicChatID = u)

\* User u is banned for bot b, c is b's contact chat, and u has no topic in c.
BannedWithoutTopic(b, u, c) ==
    /\ <<b, u>> \in bannedUser
    /\ contactChatID[b] = c
    /\ topicByUser[b, c, u] = Null
    /\ ~Pending(b, u, c)

\* C22: the ban flag is keyed by bot and user only.  No step of
\* setContactChatID changes a flag, so a user banned under one contact chat
\* stays banned under the next; and when a banned user has no topic in the
\* registered contact chat, no step of an invocation made from then on
\* removes the flag or gives the user a topic there for as long as that chat
\* stays registered: the user's messageToAdmin ends at the ban check, and
\* no thread of the chat is recorded for the user, which unbanUser needs.
C22_BanOutlivesContactChat ==
    [][/\ AnyStepOf("setContactChatID") => bannedUser' = bannedUser
       /\ \A b \in Bots, c \in SuperChats, t \in Threads :
             userByTopic[b, c, t] # Null => topicByUser[b, c, userByTopic[b, c, t]] # Null
       /\ \A b \in Bots, u \in Users, c \in SuperChats :
             BannedWithoutTopic(b, u, c) /\ contactChatID'[b] = c =>
                 /\ <<b, u>> \in bannedUser'
                 /\ topicByUser'[b, c, u] = Null
                 /\ ~(\E p \in Procs :
                        /\ inv'[p].bot = b
                        /\ \/ inv'[p].h = "messageToAdmin" /\ inv'[p].upd.chat = u
                           \/ /\ inv'[p].h = "unbanUser"
                              /\ (inv'[p].contactChatID # c \/ inv'[p].topicChatID = u))
                 /\ out'.h = "messageToAdmin" /\ out'.upd.chat = u /\ out'.bot = b =>
                        out'.res = "ok" /\ NoEffect(out')
                 /\ out'.h = "unbanUser" /\ out'.bot = b /\ out'.res = "ok" =>
                        out'.topicChatID # u]_vars

\* A user was banned in a topic of the previous contact chat and has no
\* topic in the registered one; an unbanUser sent in the user's old topic
\* has just been rejected, and the flag is still set.
C22_Witness ==
    \E u \in Users :
        /\ out.h = "unbanUser" /\ out.res = "NOT_CONTACT_CHAT" /\ out.upd.topic
        /\ userByTopic[out.bot, out.upd.chat, out.upd.thread] = u
        /\ \E c \in SuperChats \ {out.upd.chat} : BannedWithoutTopic(out.bot, u, c)
====
